---------------------------- MODULE Spec2Model ----------------------------
(***************************************************************************)
(* Model of scripts/generate-design-system.py: the design-token generator. *)
(*                                                                         *)
(* One run of main() is a linear pass: parse the command line, load the    *)
(* optional asset files, resolve the style preset, build the DesignSystem  *)
(* from the static tables, and write the four output files.                *)
(*                                                                         *)
(* Representation.                                                         *)
(*  - A Python dict is a sequence of <<key, value>> pairs in insertion     *)
(*    order (Python dicts iterate in insertion order).                     *)
(*  - A Python str that the program computes with (the product type, which *)
(*    is lower-cased; the spacing lengths, which are formatted from        *)
(*    numbers) is a sequence of one-character strings.  Every other str is *)
(*    a TLA+ string.                                                       *)
(*  - A Python number of the spacing table is [float, h]: h is the value   *)
(*    in hundredths, float tells a float from an int (they format          *)
(*    differently: 1.0 * 4 is "4.0", 1 * 4 is "4").                        *)
(*  - The outcome of a call is [exc, val]: exc is "none" and val the       *)
(*    returned value, or exc names the exception the call raised.          *)
(***************************************************************************)
EXTENDS Integers, Sequences, FiniteSets, TLC

VARIABLES
    argv,           \* the command line: the --product-type value, if any
    assets_fs,      \* the assets directory on disk
    out_fs,         \* the output directory on disk
    pc,             \* position of the run in main()
    args,           \* the parsed arguments (args.product_type)
    assets,         \* the mapping returned by load_assets
    style,          \* the preset returned by recommend_design_style
    design_system,  \* the DesignSystem returned by generate_design_system
    syscalls,       \* mkdir and file writes issued by save_outputs, in order
    exc             \* the exception that ended the run, or "none"

vars == <<argv, assets_fs, out_fs, pc, args, assets, style, design_system,
          syscalls, exc>>

---------------------------------------------------------------------------
(* Bounds of the model. *)

\* Longest product-type string drawn from ProbeAlphabet.
MaxLen == 4

\* Number of distinct well-formed JSON documents an asset file may hold.
MaxDocs == 1

---------------------------------------------------------------------------
(* Python values. *)

\* Optional[str]: None, or a string.
None == [some |-> FALSE, s |-> << >>]

Some(s) == [some |-> TRUE, s |-> s]

\* Truthiness of an Optional[str]: None and "" are falsy.
Truthy(x) == x.some /\ Len(x.s) > 0

Ok(v) == [exc |-> "none", val |-> v]

Raise(e) == [exc |-> e, val |-> << >>]

\* dict operations
Keys(d) == {d[i][1] : i \in DOMAIN d}

KeyList(d) == [i \in DOMAIN d |-> d[i][1]]

Has(d, k) == \E i \in DOMAIN d : d[i][1] = k

Get(d, k) == d[CHOOSE i \in DOMAIN d : d[i][1] = k][2]

\* d[k]
GetItem(d, k) == IF Has(d, k) THEN Ok(Get(d, k)) ELSE Raise("KeyError")

\* d.get(k, default)
GetOr(d, k, default) == IF Has(d, k) THEN Get(d, k) ELSE default

\* d[k] = v
SetItem(d, k, v) ==
    IF Has(d, k)
    THEN [i \in DOMAIN d |-> IF d[i][1] = k THEN <<k, v>> ELSE d[i]]
    ELSE Append(d, <<k, v>>)

UpperLetters ==
    <<"A", "B", "C", "D", "E", "F", "G", "H", "I", "J", "K", "L", "M",
      "N", "O", "P", "Q", "R", "S", "T", "U", "V", "W", "X", "Y", "Z">>

LowerLetters ==
    <<"a", "b", "c", "d", "e", "f", "g", "h", "i", "j", "k", "l", "m",
      "n", "o", "p", "q", "r", "s", "t", "u", "v", "w", "x", "y", "z">>

LowerChar(c) ==
    IF \E i \in DOMAIN UpperLetters : UpperLetters[i] = c
    THEN LowerLetters[CHOOSE i \in DOMAIN UpperLetters : UpperLetters[i] = c]
    ELSE c

UpperChar(c) ==
    IF \E i \in DOMAIN LowerLetters : LowerLetters[i] = c
    THEN UpperLetters[CHOOSE i \in DOMAIN LowerLetters : LowerLetters[i] = c]
    ELSE c

\* str.lower()
str_lower(s) == [i \in DOMAIN s |-> LowerChar(s[i])]

DigitChars == <<"0", "1", "2", "3", "4", "5", "6", "7", "8", "9">>

RECURSIVE Digits(_)
\* str(n) of a non-negative int
Digits(n) ==
    IF n < 10 THEN <<DigitChars[n + 1]>>
    ELSE Digits(n \div 10) \o <<DigitChars[(n % 10) + 1]>>

\* number * int: an int stays an int, a float stays a float
Mul(x, n) == [float |-> x.float, h |-> x.h * n]

\* format(x, "") as used by an f-string: str(int), or repr(float) with the
\* shortest fraction (at least one digit).  Exact for the table's scales,
\* whose multiples are binary fractions with at most two decimals.
FormatNum(x) ==
    IF x.float
    THEN Digits(x.h \div 100) \o <<".">> \o
         (IF (x.h % 100) % 10 = 0
          THEN <<DigitChars[((x.h % 100) \div 10) + 1]>>
          ELSE <<DigitChars[((x.h % 100) \div 10) + 1],
                 DigitChars[((x.h % 100) % 10) + 1]>>)
    ELSE Digits(x.h \div 100)

---------------------------------------------------------------------------
(* Static tables. *)

K_ecommerce == <<"e", "c", "o", "m", "m", "e", "r", "c", "e">>

PRESET_ecommerce ==
    <<
        <<"description", "Modern e-commerce with clean aesthetics">>,
        <<"primary_color", "blue">>,
        <<"accent_color", "orange">>,
        <<"border_radius", "rounded">>,
        <<"typography", "sans">>,
        <<"spacing", "comfortable">>,
        <<"shadows", "subtle">> >>

K_saas == <<"s", "a", "a", "s">>

PRESET_saas ==
    <<
        <<"description", "Professional SaaS with trust-building design">>,
        <<"primary_color", "indigo">>,
        <<"accent_color", "purple">>,
        <<"border_radius", "medium">>,
        <<"typography", "sans">>,
        <<"spacing", "comfortable">>,
        <<"shadows", "soft">> >>

K_social == <<"s", "o", "c", "i", "a", "l">>

PRESET_social ==
    <<
        <<"description", "Vibrant social platform with engaging UI">>,
        <<"primary_color", "pink">>,
        <<"accent_color", "purple">>,
        <<"border_radius", "full">>,
        <<"typography", "sans">>,
        <<"spacing", "compact">>,
        <<"shadows", "colorful">> >>

K_finance == <<"f", "i", "n", "a", "n", "c", "e">>

PRESET_finance ==
    <<
        <<"description", "Trustworthy finance with conservative design">>,
        <<"primary_color", "slate">>,
        <<"accent_color", "emerald">>,
        <<"border_radius", "subtle">>,
        <<"typography", "sans">>,
        <<"spacing", "spacious">>,
        <<"shadows", "minimal">> >>

K_healthcare == <<"h", "e", "a", "l", "t", "h", "c", "a", "r", "e">>

PRESET_healthcare ==
    <<
        <<"description", "Clean healthcare design with calming colors">>,
        <<"primary_color", "teal">>,
        <<"accent_color", "cyan">>,
        <<"border_radius", "medium">>,
        <<"typography", "sans">>,
        <<"spacing", "comfortable">>,
        <<"shadows", "soft">> >>

K_education == <<"e", "d", "u", "c", "a", "t", "i", "o", "n">>

\* PRESET_education with a shadows style that SHADOWS does not define.
PRESET_education_typo ==
    <<
        <<"description", "Friendly education platform with playful elements">>,
        <<"primary_color", "yellow">>,
        <<"accent_color", "blue">>,
        <<"border_radius", "rounded">>,
        <<"typography", "friendly">>,
        <<"spacing", "comfortable">>,
        <<"shadows", "playfull">> >>

PRESET_education ==
    <<
        <<"description", "Friendly education platform with playful elements">>,
        <<"primary_color", "yellow">>,
        <<"accent_color", "blue">>,
        <<"border_radius", "rounded">>,
        <<"typography", "friendly">>,
        <<"spacing", "comfortable">>,
        <<"shadows", "playful">> >>

DESIGN_STYLES ==
    <<
        <<K_ecommerce, PRESET_ecommerce>>,
        <<K_saas, PRESET_saas>>,
        <<K_social, PRESET_social>>,
        <<K_finance, PRESET_finance>>,
        <<K_healthcare, PRESET_healthcare>>,
        <<K_education, PRESET_education>> >>

COLOR_PALETTES ==
  <<
    <<"slate", <<
        <<"50", "#f8fafc">>, <<"100", "#f1f5f9">>, <<"200", "#e2e8f0">>, <<"300", "#cbd5e1">>,
        <<"400", "#94a3b8">>, <<"500", "#64748b">>, <<"600", "#475569">>, <<"700", "#334155">>,
        <<"800", "#1e293b">>, <<"900", "#0f172a">>, <<"950", "#020617">> >>>>,
    <<"gray", <<
        <<"50", "#f9fafb">>, <<"100", "#f3f4f6">>, <<"200", "#e5e7eb">>, <<"300", "#d1d5db">>,
        <<"400", "#9ca3af">>, <<"500", "#6b7280">>, <<"600", "#4b5563">>, <<"700", "#374151">>,
        <<"800", "#1f2937">>, <<"900", "#111827">>, <<"950", "#030712">> >>>>,
    <<"blue", <<
        <<"50", "#eff6ff">>, <<"100", "#dbeafe">>, <<"200", "#bfdbfe">>, <<"300", "#93c5fd">>,
        <<"400", "#60a5fa">>, <<"500", "#3b82f6">>, <<"600", "#2563eb">>, <<"700", "#1d4ed8">>,
        <<"800", "#1e40af">>, <<"900", "#1e3a8a">>, <<"950", "#172554">> >>>>,
    <<"indigo", <<
        <<"50", "#eef2ff">>, <<"100", "#e0e7ff">>, <<"200", "#c7d2fe">>, <<"300", "#a5b4fc">>,
        <<"400", "#818cf8">>, <<"500", "#6366f1">>, <<"600", "#4f46e5">>, <<"700", "#4338ca">>,
        <<"800", "#3730a3">>, <<"900", "#312e81">>, <<"950", "#1e1b4b">> >>>>,
    <<"purple", <<
        <<"50", "#faf5ff">>, <<"100", "#f3e8ff">>, <<"200", "#e9d5ff">>, <<"300", "#d8b4fe">>,
        <<"400", "#c084fc">>, <<"500", "#a855f7">>, <<"600", "#9333ea">>, <<"700", "#7e22ce">>,
        <<"800", "#6b21a8">>, <<"900", "#581c87">>, <<"950", "#3b0764">> >>>>,
    <<"pink", <<
        <<"50", "#fdf2f8">>, <<"100", "#fce7f3">>, <<"200", "#fbcfe8">>, <<"300", "#f9a8d4">>,
        <<"400", "#f472b6">>, <<"500", "#ec4899">>, <<"600", "#db2777">>, <<"700", "#be185d">>,
        <<"800", "#9d174d">>, <<"900", "#831843">>, <<"950", "#500724">> >>>>,
    <<"red", <<
        <<"50", "#fef2f2">>, <<"100", "#fee2e2">>, <<"200", "#fecaca">>, <<"300", "#fca5a5">>,
        <<"400", "#f87171">>, <<"500", "#ef4444">>, <<"600", "#dc2626">>, <<"700", "#b91c1c">>,
        <<"800", "#991b1b">>, <<"900", "#7f1d1d">>, <<"950", "#450a0a">> >>>>,
    <<"orange", <<
        <<"50", "#fff7ed">>, <<"100", "#ffedd5">>, <<"200", "#fed7aa">>, <<"300", "#fdba74">>,
        <<"400", "#fb923c">>, <<"500", "#f97316">>, <<"600", "#ea580c">>, <<"700", "#c2410c">>,
        <<"800", "#9a3412">>, <<"900", "#7c2d12">>, <<"950", "#431407">> >>>>,
    <<"yellow", <<
        <<"50", "#fefce8">>, <<"100", "#fef9c3">>, <<"200", "#fef08a">>, <<"300", "#fde047">>,
        <<"400", "#facc15">>, <<"500", "#eab308">>, <<"600", "#ca8a04">>, <<"700", "#a16207">>,
        <<"800", "#854d0e">>, <<"900", "#713f12">>, <<"950", "#422006">> >>>>,
    <<"green", <<
        <<"50", "#f0fdf4">>, <<"100", "#dcfce7">>, <<"200", "#bbf7d0">>, <<"300", "#86efac">>,
        <<"400", "#4ade80">>, <<"500", "#22c55e">>, <<"600", "#16a34a">>, <<"700", "#15803d">>,
        <<"800", "#166534">>, <<"900", "#14532d">>, <<"950", "#052e16">> >>>>,
    <<"emerald", <<
        <<"50", "#ecfdf5">>, <<"100", "#d1fae5">>, <<"200", "#a7f3d0">>, <<"300", "#6ee7b7">>,
        <<"400", "#34d399">>, <<"500", "#10b981">>, <<"600", "#059669">>, <<"700", "#047857">>,
        <<"800", "#065f46">>, <<"900", "#064e3b">>, <<"950", "#022c22">> >>>>,
    <<"teal", <<
        <<"50", "#f0fdfa">>, <<"100", "#ccfbf1">>, <<"200", "#99f6e4">>, <<"300", "#5eead4">>,
        <<"400", "#2dd4bf">>, <<"500", "#14b8a6">>, <<"600", "#0d9488">>, <<"700", "#0f766e">>,
        <<"800", "#115e59">>, <<"900", "#134e4a">>, <<"950", "#042f2e">> >>>>,
    <<"cyan", <<
        <<"50", "#ecfeff">>, <<"100", "#cffafe">>, <<"200", "#a5f3fc">>, <<"300", "#67e8f9">>,
        <<"400", "#22d3ee">>, <<"500", "#06b6d4">>, <<"600", "#0891b2">>, <<"700", "#0e7490">>,
        <<"800", "#155e75">>, <<"900", "#164e63">>, <<"950", "#083344">> >>>> >>

BORDER_RADIUS ==
  <<
    <<"none", <<
        <<"none", "0px">> >>>>,
    <<"subtle", <<
        <<"sm", "0.125rem">>, <<"DEFAULT", "0.25rem">>, <<"md", "0.375rem">>,
        <<"lg", "0.5rem">>, <<"xl", "0.75rem">> >>>>,
    <<"rounded", <<
        <<"sm", "0.125rem">>, <<"DEFAULT", "0.375rem">>, <<"md", "0.5rem">>,
        <<"lg", "0.75rem">>, <<"xl", "1rem">>, <<"2xl", "1.5rem">> >>>>,
    <<"medium", <<
        <<"sm", "0.25rem">>, <<"DEFAULT", "0.5rem">>, <<"md", "0.75rem">>,
        <<"lg", "1rem">>, <<"xl", "1.5rem">>, <<"2xl", "2rem">> >>>>,
    <<"full", <<
        <<"sm", "9999px">>, <<"DEFAULT", "9999px">>, <<"md", "9999px">>,
        <<"lg", "9999px">>, <<"xl", "9999px">>, <<"full", "9999px">> >>>> >>

SHADOWS ==
  <<
    <<"minimal", <<
        <<"xs", "0 1px 2px 0 rgb(0 0 0 / 0.05)">>,
        <<"sm", "0 1px 3px 0 rgb(0 0 0 / 0.1), 0 1px 2px -1px rgb(0 0 0 / 0.1)">> >>>>,
    <<"subtle", <<
        <<"DEFAULT", "0 1px 3px 0 rgb(0 0 0 / 0.1), 0 1px 2px -1px rgb(0 0 0 / 0.1)">>,
        <<"sm", "0 1px 2px 0 rgb(0 0 0 / 0.05)">>,
        <<"md", "0 4px 6px -1px rgb(0 0 0 / 0.1), 0 2px 4px -2px rgb(0 0 0 / 0.1)">> >>>>,
    <<"soft", <<
        <<"DEFAULT", "0 4px 6px -1px rgb(0 0 0 / 0.1), 0 2px 4px -2px rgb(0 0 0 / 0.1)">>,
        <<"md", "0 10px 15px -3px rgb(0 0 0 / 0.1), 0 4px 6px -4px rgb(0 0 0 / 0.1)">>,
        <<"lg", "0 20px 25px -5px rgb(0 0 0 / 0.1), 0 8px 10px -6px rgb(0 0 0 / 0.1)">> >>>>,
    <<"colorful", <<
        <<"DEFAULT", "0 10px 15px -3px rgb(0 0 0 / 0.1), 0 4px 6px -4px rgb(0 0 0 / 0.1)">>,
        <<"lg", "0 25px 50px -12px rgb(0 0 0 / 0.25)">>,
        <<"color", "0 20px 25px -5px rgb(0 0 0 / 0.1), 0 8px 10px -6px rgb(0 0 0 / 0.1)">> >>>>,
    <<"playful", <<
        <<"DEFAULT", "0 4px 6px -1px rgb(0 0 0 / 0.1), 0 2px 4px -2px rgb(0 0 0 / 0.1)">>,
        <<"lg", "0 20px 25px -5px rgb(0 0 0 / 0.1), 0 8px 10px -6px rgb(0 0 0 / 0.1)">>,
        <<"xl", "0 25px 50px -12px rgb(0 0 0 / 0.25)">> >>>> >>

TYPOGRAPHY ==
  <<
    <<"sans", <<
        <<"family", <<"Inter", "system-ui", "sans-serif">>>>,
        <<"sizes", <<
            <<"xs", <<"0.75rem", "1rem">>>>, <<"sm", <<"0.875rem", "1.25rem">>>>,
            <<"base", <<"1rem", "1.5rem">>>>, <<"lg", <<"1.125rem", "1.75rem">>>>,
            <<"xl", <<"1.25rem", "1.75rem">>>>, <<"2xl", <<"1.5rem", "2rem">>>>,
            <<"3xl", <<"1.875rem", "2.25rem">>>>, <<"4xl", <<"2.25rem", "2.5rem">>>> >>>> >>>>,
    <<"friendly", <<
        <<"family", <<"Nunito", "system-ui", "sans-serif">>>>,
        <<"sizes", <<
            <<"xs", <<"0.75rem", "1rem">>>>, <<"sm", <<"0.875rem", "1.25rem">>>>,
            <<"base", <<"1rem", "1.5rem">>>>, <<"lg", <<"1.125rem", "1.75rem">>>>,
            <<"xl", <<"1.25rem", "1.75rem">>>>, <<"2xl", <<"1.5rem", "2rem">>>>,
            <<"3xl", <<"1.875rem", "2.25rem">>>>, <<"4xl", <<"2.25rem", "2.5rem">>>> >>>> >>>> >>

\* A variant of SPACING whose base entries are half a scale step.
SPACING_half_base ==
  <<
    <<"compact", << <<"scale", [float |-> TRUE, h |-> 25]>>, <<"base", <<"0", ".", "1", "2", "5", "r", "e", "m">>>> >>>>,
    <<"comfortable", << <<"scale", [float |-> TRUE, h |-> 50]>>, <<"base", <<"0", ".", "2", "5", "r", "e", "m">>>> >>>>,
    <<"spacious", << <<"scale", [float |-> FALSE, h |-> 100]>>, <<"base", <<"0", ".", "5", "r", "e", "m">>>> >>>> >>

SPACING ==
  <<
    <<"compact", << <<"scale", [float |-> TRUE, h |-> 25]>>, <<"base", <<"0", ".", "2", "5", "r", "e", "m">>>> >>>>,
    <<"comfortable", << <<"scale", [float |-> TRUE, h |-> 50]>>, <<"base", <<"0", ".", "5", "r", "e", "m">>>> >>>>,
    <<"spacious", << <<"scale", [float |-> FALSE, h |-> 100]>>, <<"base", <<"1", "r", "e", "m">>>> >>>> >>

\* The breakpoints literal of generate_design_system.
BREAKPOINTS ==
    << <<"sm", "640px">>, <<"md", "768px">>, <<"lg", "1024px">>,
       <<"xl", "1280px">>, <<"2xl", "1536px">> >>

\* The line_heights literal of generate_design_system.
LINE_HEIGHTS ==
    << <<"tight", "1.25">>, <<"normal", "1.5">>, <<"relaxed", "1.75">> >>

\* The weights literal of generate_design_system.
FONT_WEIGHTS == <<300, 400, 500, 600, 700>>

\* Token names; generate_css_variables upper-cases them.
N_primary == <<"p", "r", "i", "m", "a", "r", "y">>

N_accent == <<"a", "c", "c", "e", "n", "t">>

N_neutral == <<"n", "e", "u", "t", "r", "a", "l">>

N_success == <<"s", "u", "c", "c", "e", "s", "s">>

N_warning == <<"w", "a", "r", "n", "i", "n", "g">>

N_error == <<"e", "r", "r", "o", "r">>

REM == <<"r", "e", "m">>

---------------------------------------------------------------------------
(* The assets directory and load_assets. *)

AssetFileNames == {"colors", "fonts", "styles"}

\* The JSON object with n members.
JsonDoc(n) == [j \in 1..n |-> <<ToString(j), "#000000">>]

JsonDocs == {JsonDoc(n) : n \in 0..MaxDocs}

\* What <assets>/<name>.json can be: not there; there but open() fails;
\* there but not JSON; there and holding a JSON document.
FileStates ==
    {[kind |-> k, doc |-> << >>] : k \in {"absent", "unreadable", "malformed"}}
    \cup {[kind |-> "json", doc |-> d] : d \in JsonDocs}

AbsentFile == [kind |-> "absent", doc |-> << >>]

AssetDirs ==
    {[dir |-> FALSE, files |-> [n \in AssetFileNames |-> AbsentFile]]}
    \cup {[dir |-> TRUE, files |-> f] : f \in [AssetFileNames -> FileStates]}

\* Exceptions derived from Exception (what `except Exception` catches).
\* SystemExit and KeyboardInterrupt are not.
ExceptionClasses ==
    {"PermissionError", "JSONDecodeError", "KeyError", "AttributeError",
     "FileExistsError", "OSError"}

\* with open(file, 'r') as f: json.load(f)
ReadJson(f) ==
    IF f.kind = "unreadable" THEN Raise("PermissionError")
    ELSE IF f.kind = "malformed" THEN Raise("JSONDecodeError")
    ELSE Ok(f.doc)

EmptyAssets == << <<"colors", << >> >>, <<"fonts", << >> >>, <<"styles", << >> >> >>

\* A variant of LoadCategory whose handler is `except json.JSONDecodeError`.
LoadCategory_narrow(acc, key, f) ==
    IF acc.exc # "none" THEN acc
    ELSE IF f.kind = "absent" THEN acc
    ELSE LET r == ReadJson(f)
         IN  IF r.exc = "none" THEN Ok(SetItem(acc.val, key, r.val))
             ELSE IF r.exc = "JSONDecodeError" THEN acc
             ELSE r

\* One `if file.exists(): try: assets[key] = json.load(...) except Exception`
\* block of load_assets, run after the blocks before it (acc).
LoadCategory(acc, key, f) ==
    IF acc.exc # "none" THEN acc
    ELSE IF f.kind = "absent" THEN acc
    ELSE LET r == ReadJson(f)
         IN  IF r.exc = "none" THEN Ok(SetItem(acc.val, key, r.val))
             ELSE IF r.exc \in ExceptionClasses THEN acc
             ELSE r

load_assets(fs) ==
    IF ~fs.dir THEN Ok(EmptyAssets)
    ELSE LoadCategory(
             LoadCategory(
                 LoadCategory(Ok(EmptyAssets), "colors", fs.files["colors"]),
                 "fonts", fs.files["fonts"]),
             "styles", fs.files["styles"])

---------------------------------------------------------------------------
(* recommend_design_style *)

\* A variant of recommend_design_style that looks the key up as given.
recommend_design_style_exact(product_type, assets_) ==
    IF Truthy(product_type) /\ Has(DESIGN_STYLES, product_type.s)
    THEN GetItem(DESIGN_STYLES, product_type.s)
    ELSE GetItem(DESIGN_STYLES, K_saas)

recommend_design_style(product_type, assets_) ==
    IF Truthy(product_type) /\ Has(DESIGN_STYLES, str_lower(product_type.s))
    THEN GetItem(DESIGN_STYLES, str_lower(product_type.s))
    ELSE GetItem(DESIGN_STYLES, K_saas)

---------------------------------------------------------------------------
(* generate_design_system *)

ColorToken(name, value, type, variants) ==
    [name |-> name, value |-> value, type |-> type, variants |-> variants]

FontToken(name, family, weights, sizes, line_heights) ==
    [name |-> name, family |-> family, weights |-> weights, sizes |-> sizes,
     line_heights |-> line_heights]

SpacingToken(scale_factor, values) ==
    [scale_factor |-> scale_factor, values |-> values]

DesignSystem(colors, fonts, spacing, radius, shadows, breakpoints) ==
    [colors |-> colors, fonts |-> fonts, spacing |-> spacing,
     radius |-> radius, shadows |-> shadows, breakpoints |-> breakpoints]

\* A variant of PaletteToken that copies the shades up to "900" only.
PaletteToken_partial(name, type, family) ==
    ColorToken(name, Get(Get(COLOR_PALETTES, family), "500"), type,
               SubSeq(Get(COLOR_PALETTES, family), 1,
                      Len(Get(COLOR_PALETTES, family)) - 1))

\* ColorToken(name=..., value=COLOR_PALETTES[family]["500"], type=...,
\*            variants=COLOR_PALETTES[family])
PaletteToken(name, type, family) ==
    ColorToken(name, Get(Get(COLOR_PALETTES, family), "500"), type,
               Get(COLOR_PALETTES, family))

\* A variant of ColorTokens whose neutral token follows the preset's primary
\* family.
ColorTokens_neutral_follows(primary_color_name, accent_color_name) ==
    << PaletteToken(N_primary, "primary", primary_color_name),
       PaletteToken(N_accent, "accent", accent_color_name),
       PaletteToken(N_neutral, "neutral", primary_color_name),
       PaletteToken(N_success, "semantic", "emerald"),
       PaletteToken(N_warning, "semantic", "yellow"),
       PaletteToken(N_error, "semantic", "red") >>

\* The colors list of generate_design_system.
ColorTokens(primary_color_name, accent_color_name) ==
    << PaletteToken(N_primary, "primary", primary_color_name),
       PaletteToken(N_accent, "accent", accent_color_name),
       PaletteToken(N_neutral, "neutral", "slate"),
       PaletteToken(N_success, "semantic", "emerald"),
       PaletteToken(N_warning, "semantic", "yellow"),
       PaletteToken(N_error, "semantic", "red") >>

\* A variant of ScaledRem that leaves the scale factor out: f"{n}rem".
ScaledRem_unscaled(spacing_config, n) ==
    FormatNum([float |-> FALSE, h |-> 100 * n]) \o REM

\* f"{spacing_config['scale'] * n}rem"
ScaledRem(spacing_config, n) ==
    FormatNum(Mul(Get(spacing_config, "scale"), n)) \o REM

\* The values dict of the SpacingToken.
SpacingValues(spacing_config) ==
    << <<"0", <<"0">> >>,
       <<"px", <<"1", "p", "x">> >>,
       <<"0.5", Get(spacing_config, "base")>>,
       <<"1", FormatNum(Get(spacing_config, "scale")) \o REM>>,
       <<"2", ScaledRem(spacing_config, 2)>>,
       <<"3", ScaledRem(spacing_config, 3)>>,
       <<"4", ScaledRem(spacing_config, 4)>>,
       <<"5", ScaledRem(spacing_config, 5)>>,
       <<"6", ScaledRem(spacing_config, 6)>>,
       <<"8", ScaledRem(spacing_config, 8)>>,
       <<"10", ScaledRem(spacing_config, 10)>>,
       <<"12", ScaledRem(spacing_config, 12)>>,
       <<"16", ScaledRem(spacing_config, 16)>>,
       <<"20", ScaledRem(spacing_config, 20)>>,
       <<"24", ScaledRem(spacing_config, 24)>> >>

\* Every subscript generate_design_system evaluates finds its key.
LookupsSucceed(primary, accent, radius, shadow, typography, spacing) ==
    /\ \A family \in {primary, accent, "slate", "emerald", "yellow", "red"} :
          /\ Has(COLOR_PALETTES, family)
          /\ Has(Get(COLOR_PALETTES, family), "500")
    /\ Has(TYPOGRAPHY, typography)
    /\ Has(Get(TYPOGRAPHY, typography), "family")
    /\ Len(Get(Get(TYPOGRAPHY, typography), "family")) > 0
    /\ Has(Get(TYPOGRAPHY, typography), "sizes")
    /\ Has(SPACING, spacing)
    /\ Has(Get(SPACING, spacing), "scale")
    /\ Has(Get(SPACING, spacing), "base")
    /\ Has(BORDER_RADIUS, radius)
    /\ Has(SHADOWS, shadow)

\* A variant of generate_design_system that merges the loaded styles into
\* the radius mapping.
generate_design_system_merged(style_, assets_) ==
    LET primary_color_name == GetOr(style_, "primary_color", "indigo")
        accent_color_name == GetOr(style_, "accent_color", "purple")
        radius_type == GetOr(style_, "border_radius", "medium")
        shadow_type == GetOr(style_, "shadows", "soft")
        typography_type == GetOr(style_, "typography", "sans")
        spacing_type == GetOr(style_, "spacing", "comfortable")
        typography == Get(TYPOGRAPHY, typography_type)
        spacing_config == Get(SPACING, spacing_type)
    IN  IF ~LookupsSucceed(primary_color_name, accent_color_name, radius_type,
                           shadow_type, typography_type, spacing_type)
        THEN Raise("KeyError")
        ELSE Ok(DesignSystem(
                 ColorTokens(primary_color_name, accent_color_name),
                 << FontToken("sans", Get(typography, "family")[1],
                              FONT_WEIGHTS, Get(typography, "sizes"),
                              LINE_HEIGHTS) >>,
                 SpacingToken(Get(spacing_config, "scale"),
                              SpacingValues(spacing_config)),
                 Get(BORDER_RADIUS, radius_type) \o Get(assets_, "styles"),
                 Get(SHADOWS, shadow_type),
                 BREAKPOINTS))

generate_design_system(style_, assets_) ==
    LET primary_color_name == GetOr(style_, "primary_color", "indigo")
        accent_color_name == GetOr(style_, "accent_color", "purple")
        radius_type == GetOr(style_, "border_radius", "medium")
        shadow_type == GetOr(style_, "shadows", "soft")
        typography_type == GetOr(style_, "typography", "sans")
        spacing_type == GetOr(style_, "spacing", "comfortable")
        typography == Get(TYPOGRAPHY, typography_type)
        spacing_config == Get(SPACING, spacing_type)
    IN  IF ~LookupsSucceed(primary_color_name, accent_color_name, radius_type,
                           shadow_type, typography_type, spacing_type)
        THEN Raise("KeyError")
        ELSE Ok(DesignSystem(
                 ColorTokens(primary_color_name, accent_color_name),
                 << FontToken("sans", Get(typography, "family")[1],
                              FONT_WEIGHTS, Get(typography, "sizes"),
                              LINE_HEIGHTS) >>,
                 SpacingToken(Get(spacing_config, "scale"),
                              SpacingValues(spacing_config)),
                 Get(BORDER_RADIUS, radius_type),
                 Get(SHADOWS, shadow_type),
                 BREAKPOINTS))

---------------------------------------------------------------------------
(* Renderers.  A rendered text is the sequence of the string pieces it is  *)
(* made of; its characters are their concatenation.                        *)

UpperString(s) == [i \in DOMAIN s |-> UpperChar(s[i])]

RECURSIVE Join(_)
\* "".join(pieces)
Join(pieces) ==
    IF pieces = << >> THEN << >> ELSE Head(pieces) \o Join(Tail(pieces))

\* The css.append calls of one color token.
CssColorBlock(color) ==
    << <<"  /* ">> \o UpperString(color.name) \o <<" */\n">> >>
    \o [i \in DOMAIN color.variants |->
          <<"  --color-">> \o color.name
          \o <<"-", color.variants[i][1], ": ", color.variants[i][2], ";\n">>]
    \o << <<"\n">> >>

RECURSIVE CssColorBlocks(_)
CssColorBlocks(colors) ==
    IF colors = << >> THEN << >>
    ELSE CssColorBlock(Head(colors)) \o CssColorBlocks(Tail(colors))

\* The css.append calls of the spacing section.
CssSpacingLines(design_system_) ==
    [i \in DOMAIN design_system_.spacing.values |->
        <<"  --spacing-", design_system_.spacing.values[i][1], ": ">>
        \o design_system_.spacing.values[i][2] \o <<";\n">>]

\* The css.append calls of a section whose values are plain strings.
CssPlainLines(prefix, d) ==
    [i \in DOMAIN d |-> <<prefix, d[i][1], ": ", d[i][2], ";\n">>]

\* The list css of generate_css_variables, before it is joined.
CssPieces(design_system_) ==
    << <<":root {\n">> >>
    \o CssColorBlocks(design_system_.colors)
    \o << <<"  /* SPACING */\n">> >> \o CssSpacingLines(design_system_)
    \o << <<"\n">> >>
    \o << <<"  /* BORDER RADIUS */\n">> >>
    \o CssPlainLines("  --radius-", design_system_.radius)
    \o << <<"\n">> >>
    \o << <<"  /* SHADOWS */\n">> >>
    \o CssPlainLines("  --shadow-", design_system_.shadows)
    \o << <<"\n">> >>
    \o << <<"  /* BREAKPOINTS */\n">> >>
    \o CssPlainLines("  --breakpoint-", design_system_.breakpoints)
    \o << <<"}\n">> >>

generate_css_variables(design_system_) == Join(CssPieces(design_system_))

RECURSIVE TailwindColors(_, _)
\* colors = {}; for color in colors[1..n]: colors[color.name] = color.variants
TailwindColors(colors, n) ==
    IF n = 0 THEN << >>
    ELSE SetItem(TailwindColors(colors, n - 1),
                 colors[n].name, colors[n].variants)

RECURSIVE FontFamilies(_, _)
\* {font.name: font.family for font in fonts[1..n]}
FontFamilies(fonts, n) ==
    IF n = 0 THEN << >>
    ELSE SetItem(FontFamilies(fonts, n - 1), fonts[n].name, fonts[n].family)

generate_tailwind_config(design_system_) ==
    << <<"theme", <<
        <<"extend", <<
            <<"colors", TailwindColors(design_system_.colors,
                                       Len(design_system_.colors))>>,
            <<"spacing", design_system_.spacing.values>>,
            <<"borderRadius", design_system_.radius>>,
            <<"boxShadow", design_system_.shadows>>,
            <<"screens", design_system_.breakpoints>>,
            <<"fontFamily", FontFamilies(design_system_.fonts,
                                         Len(design_system_.fonts))>>,
            <<"fontSize", design_system_.fonts[1].sizes>> >> >> >> >> >>

\* next(c for c in colors if c.name == name)
FirstNamed(colors, name) ==
    colors[CHOOSE i \in DOMAIN colors :
              /\ colors[i].name = name
              /\ \A j \in 1..(i - 1) : colors[j].name # name]

\* A variant of generate_shadcn_theme that picks the "destructive" source by
\* the name "warning" instead of by position.
generate_shadcn_theme_named(design_system_) ==
    LET primary == FirstNamed(design_system_.colors, N_primary)
        accent == FirstNamed(design_system_.colors, N_accent)
        neutral == FirstNamed(design_system_.colors, N_neutral)
    IN  << <<"name", "default">>,
           <<"type", "light">>,
           <<"colors", <<
               <<"background", Get(neutral.variants, "50")>>,
               <<"foreground", Get(neutral.variants, "950")>>,
               <<"card", Get(neutral.variants, "50")>>,
               <<"cardForeground", Get(neutral.variants, "950")>>,
               <<"popover", Get(neutral.variants, "50")>>,
               <<"popoverForeground", Get(neutral.variants, "950")>>,
               <<"primary", Get(primary.variants, "500")>>,
               <<"primaryForeground", Get(neutral.variants, "50")>>,
               <<"secondary", Get(neutral.variants, "100")>>,
               <<"secondaryForeground", Get(neutral.variants, "900")>>,
               <<"muted", Get(neutral.variants, "100")>>,
               <<"mutedForeground", Get(neutral.variants, "500")>>,
               <<"accent", Get(accent.variants, "500")>>,
               <<"accentForeground", Get(neutral.variants, "50")>>,
               <<"destructive",
                  Get(FirstNamed(design_system_.colors, N_warning).variants, "500")>>,
               <<"destructiveForeground", Get(neutral.variants, "50")>>,
               <<"border", Get(neutral.variants, "200")>>,
               <<"input", Get(neutral.variants, "200")>>,
               <<"ring", Get(primary.variants, "500")>> >> >>,
           <<"borderRadius", GetOr(design_system_.radius, "DEFAULT", "0.5rem")>> >>

generate_shadcn_theme(design_system_) ==
    LET primary == FirstNamed(design_system_.colors, N_primary)
        accent == FirstNamed(design_system_.colors, N_accent)
        neutral == FirstNamed(design_system_.colors, N_neutral)
    IN  << <<"name", "default">>,
           <<"type", "light">>,
           <<"colors", <<
               <<"background", Get(neutral.variants, "50")>>,
               <<"foreground", Get(neutral.variants, "950")>>,
               <<"card", Get(neutral.variants, "50")>>,
               <<"cardForeground", Get(neutral.variants, "950")>>,
               <<"popover", Get(neutral.variants, "50")>>,
               <<"popoverForeground", Get(neutral.variants, "950")>>,
               <<"primary", Get(primary.variants, "500")>>,
               <<"primaryForeground", Get(neutral.variants, "50")>>,
               <<"secondary", Get(neutral.variants, "100")>>,
               <<"secondaryForeground", Get(neutral.variants, "900")>>,
               <<"muted", Get(neutral.variants, "100")>>,
               <<"mutedForeground", Get(neutral.variants, "500")>>,
               <<"accent", Get(accent.variants, "500")>>,
               <<"accentForeground", Get(neutral.variants, "50")>>,
               \* design_system.colors[4]: the fifth token
               <<"destructive", Get(design_system_.colors[5].variants, "500")>>,
               <<"destructiveForeground", Get(neutral.variants, "50")>>,
               <<"border", Get(neutral.variants, "200")>>,
               <<"input", Get(neutral.variants, "200")>>,
               <<"ring", Get(primary.variants, "500")>> >> >>,
           <<"borderRadius", GetOr(design_system_.radius, "DEFAULT", "0.5rem")>> >>

\* dataclasses.asdict(design_system)
asdict(design_system_) ==
    << <<"colors", [i \in DOMAIN design_system_.colors |->
                      << <<"name", design_system_.colors[i].name>>,
                         <<"value", design_system_.colors[i].value>>,
                         <<"type", design_system_.colors[i].type>>,
                         <<"variants", design_system_.colors[i].variants>> >>]>>,
       <<"fonts", [i \in DOMAIN design_system_.fonts |->
                      << <<"name", design_system_.fonts[i].name>>,
                         <<"family", design_system_.fonts[i].family>>,
                         <<"weights", design_system_.fonts[i].weights>>,
                         <<"sizes", design_system_.fonts[i].sizes>>,
                         <<"line_heights", design_system_.fonts[i].line_heights>> >>]>>,
       <<"spacing", << <<"scale_factor", design_system_.spacing.scale_factor>>,
                       <<"values", design_system_.spacing.values>> >> >>,
       <<"radius", design_system_.radius>>,
       <<"shadows", design_system_.shadows>>,
       <<"breakpoints", design_system_.breakpoints>> >>

---------------------------------------------------------------------------
(* save_outputs *)

CssFile == "design-tokens.css"

TailwindFile == "tailwind.config.json"

ShadcnFile == "shadcn-theme.json"

SystemFile == "design-system.json"

OutputFiles == {CssFile, TailwindFile, ShadcnFile, SystemFile}

\* json.dump(obj, f, indent=2): the file holds the JSON document obj.
JsonDump(obj) == <<"json", obj>>

\* What save_outputs writes to each file.
FileContent(file, design_system_) ==
    CASE file = CssFile ->
            <<"/* Design System CSS Variables */\n",
              "/* Generated by generate-design-system.py */\n\n">>
            \o generate_css_variables(design_system_)
      [] file = TailwindFile ->
            JsonDump(generate_tailwind_config(design_system_))
      [] file = ShadcnFile ->
            JsonDump(generate_shadcn_theme(design_system_))
      [] file = SystemFile ->
            JsonDump(asdict(design_system_))

---------------------------------------------------------------------------
(* The command line. *)

\* choices=list(DESIGN_STYLES.keys())
ProductTypeChoices == KeyList(DESIGN_STYLES)

InChoices(s) == \E i \in DOMAIN ProductTypeChoices : ProductTypeChoices[i] = s

\* A variant of parse_args whose --product-type has no choices.
parse_args_unchecked(argv_) == Ok([product_type |-> argv_.product_type])

\* parser.parse_args(): --product-type is optional (default None); a value
\* that is not one of the choices is a usage error, which exits the process
\* with status 2.
parse_args(argv_) ==
    IF argv_.product_type.some /\ ~InChoices(argv_.product_type.s)
    THEN Raise("SystemExit")
    ELSE Ok([product_type |-> argv_.product_type])

---------------------------------------------------------------------------
(* Inputs. *)

\* The key k with the letters at the positions in m upper-cased.
Recased(k, m) == [i \in DOMAIN k |-> IF i \in m THEN UpperChar(k[i]) ELSE k[i]]

\* Every spelling of every preset key, in every letter case.
CaseVariants ==
    UNION {{Recased(k, m) : m \in SUBSET DOMAIN k} : k \in Keys(DESIGN_STYLES)}

ProbeAlphabet == {"s", "a", "S", "-"}

\* Every string over ProbeAlphabet of length at most MaxLen.
ProbeStrings == UNION {[1..n -> ProbeAlphabet] : n \in 0..MaxLen}

\* Product types a caller may pass to recommend_design_style.
ProductTypes == {None} \cup {Some(s) : s \in CaseVariants \cup ProbeStrings}

\* --product-type values tried on the command line: none, each preset key,
\* and values that are not choices (empty, wrong case, unknown).
CliProductTypes ==
    {None}
    \cup {Some(k) : k \in Keys(DESIGN_STYLES)}
    \cup {Some(<< >>), Some(UpperString(K_saas)), Some(<<"x">>)}

\* Every mapping load_assets can return.
AssetMappings == {load_assets(d).val : d \in AssetDirs}

\* The mappings whose three categories hold the same document.
UniformAssets ==
    {<< <<"colors", d>>, <<"fonts", d>>, <<"styles", d>> >> : d \in JsonDocs}

\* A file of the output directory: not there, left by an earlier run,
\* truncated by a write that failed, or written by this run.
NoFile == [state |-> "absent", data |-> << >>]

StaleFile == [state |-> "stale", data |-> << >>]

PartialFile == [state |-> "partial", data |-> << >>]

Written(data) == [state |-> "written", data |-> data]

\* The output path: nothing there, a regular file, or a directory (empty,
\* or holding the files of an earlier run).
OutDirs ==
    {[kind |-> k, files |-> [f \in OutputFiles |-> NoFile]] :
        k \in {"missing", "file", "dir"}}
    \cup {[kind |-> "dir", files |-> [f \in OutputFiles |-> StaleFile]]}

NotYet == << >>

---------------------------------------------------------------------------
(* main() *)

\* A variant of AfterStep in which save_outputs returns after the third file.
AfterStep_three_files(p) ==
    CASE p = "parse_args" -> "load_assets"
      [] p = "load_assets" -> "recommend"
      [] p = "recommend" -> "generate"
      [] p = "generate" -> "mkdir"
      [] p = "mkdir" -> "write_css"
      [] p = "write_css" -> "write_tailwind"
      [] p = "write_tailwind" -> "write_shadcn"
      [] p = "write_shadcn" -> "done"
      [] p = "write_system" -> "done"

\* The statement after p in main() and save_outputs().
AfterStep(p) ==
    CASE p = "parse_args" -> "load_assets"
      [] p = "load_assets" -> "recommend"
      [] p = "recommend" -> "generate"
      [] p = "generate" -> "mkdir"
      [] p = "mkdir" -> "write_css"
      [] p = "write_css" -> "write_tailwind"
      [] p = "write_tailwind" -> "write_shadcn"
      [] p = "write_shadcn" -> "write_system"
      [] p = "write_system" -> "done"

\* A variant of AfterRaise in which a failed write is logged and save_outputs
\* goes on to the next file.
AfterRaise_continue(p) ==
    IF p = "parse_args" THEN "usage_error"
    ELSE IF p \in {"write_css", "write_tailwind", "write_shadcn"}
         THEN IF p = "write_css" THEN "write_tailwind"
              ELSE IF p = "write_tailwind" THEN "write_shadcn"
              ELSE "write_system"
         ELSE "crashed"

\* Where an exception raised at p takes the run: nothing in main() or
\* save_outputs() catches it, so the run ends.
AfterRaise(p) == IF p = "parse_args" THEN "usage_error" ELSE "crashed"

Init ==
    /\ argv \in {[product_type |-> t] : t \in CliProductTypes}
    /\ assets_fs \in AssetDirs
    /\ out_fs \in OutDirs
    /\ pc = "parse_args"
    /\ args = NotYet
    /\ assets = NotYet
    /\ style = NotYet
    /\ design_system = NotYet
    /\ syscalls = << >>
    /\ exc = "none"

\* args = parser.parse_args()
ParseArgs ==
    /\ pc = "parse_args"
    /\ \E r \in {parse_args(argv)} :
          /\ args' = IF r.exc = "none" THEN r.val ELSE args
          /\ exc' = r.exc
          /\ pc' = IF r.exc = "none" THEN AfterStep(pc) ELSE AfterRaise(pc)
    /\ UNCHANGED <<argv, assets_fs, out_fs, assets, style, design_system,
                   syscalls>>

\* assets = load_assets(args.assets)
LoadAssets ==
    /\ pc = "load_assets"
    /\ \E r \in {load_assets(assets_fs)} :
          /\ assets' = IF r.exc = "none" THEN r.val ELSE assets
          /\ exc' = r.exc
          /\ pc' = IF r.exc = "none" THEN AfterStep(pc) ELSE AfterRaise(pc)
    /\ UNCHANGED <<argv, assets_fs, out_fs, args, style, design_system,
                   syscalls>>

\* style = recommend_design_style(args.product_type, assets)
Recommend ==
    /\ pc = "recommend"
    /\ \E r \in {recommend_design_style(args.product_type, assets)} :
          /\ style' = IF r.exc = "none" THEN r.val ELSE style
          /\ exc' = r.exc
          /\ pc' = IF r.exc = "none" THEN AfterStep(pc) ELSE AfterRaise(pc)
    /\ UNCHANGED <<argv, assets_fs, out_fs, args, assets, design_system,
                   syscalls>>

\* design_system = generate_design_system(style, assets)
Generate ==
    /\ pc = "generate"
    /\ \E r \in {generate_design_system(style, assets)} :
          /\ design_system' = IF r.exc = "none" THEN r.val ELSE design_system
          /\ exc' = r.exc
          /\ pc' = IF r.exc = "none" THEN AfterStep(pc) ELSE AfterRaise(pc)
    /\ UNCHANGED <<argv, assets_fs, out_fs, args, assets, style, syscalls>>

\* output_path.mkdir(parents=True, exist_ok=True).  An existing directory is
\* accepted; a regular file at the path raises FileExistsError; otherwise
\* the operating system creates the directory or refuses (os_ok).
mkdir(fs, os_ok) ==
    IF fs.kind = "dir" THEN Ok(fs)
    ELSE IF fs.kind = "file" THEN Raise("FileExistsError")
    ELSE IF os_ok THEN Ok([fs EXCEPT !.kind = "dir"])
    ELSE Raise("OSError")

Mkdir ==
    /\ pc = "mkdir"
    /\ \E os_ok \in BOOLEAN :
       \E r \in {mkdir(out_fs, os_ok)} :
          /\ out_fs' = IF r.exc = "none" THEN r.val ELSE out_fs
          /\ exc' = r.exc
          /\ pc' = IF r.exc = "none" THEN AfterStep(pc) ELSE AfterRaise(pc)
          /\ syscalls' = Append(syscalls, [op |-> "mkdir", file |-> "",
                                           ok |-> r.exc = "none"])
    /\ UNCHANGED <<argv, assets_fs, args, assets, style, design_system>>

\* with open(file, 'w') as f: f.write(data).  The operating system decides:
\* "ok"; "open_fails" (the file is left as it was); "write_fails" (open
\* truncated the file, the data did not all reach it).
write_file(fs, file, data, outcome) ==
    CASE outcome = "ok" -> Ok([fs EXCEPT !.files[file] = Written(data)])
      [] outcome = "open_fails" -> [exc |-> "OSError", val |-> fs]
      [] outcome = "write_fails" ->
            [exc |-> "OSError", val |-> [fs EXCEPT !.files[file] = PartialFile]]

WriteOutcomes == {"ok", "open_fails", "write_fails"}

\* One `with open(...)` block of save_outputs.
Save(at, file) ==
    /\ pc = at
    /\ \E data \in {FileContent(file, design_system)} :
       \E outcome \in WriteOutcomes :
       \E r \in {write_file(out_fs, file, data, outcome)} :
          /\ out_fs' = r.val
          /\ exc' = r.exc
          /\ pc' = IF r.exc = "none" THEN AfterStep(pc) ELSE AfterRaise(pc)
          /\ syscalls' = Append(syscalls, [op |-> "write", file |-> file,
                                           ok |-> r.exc = "none"])
    /\ UNCHANGED <<argv, assets_fs, args, assets, style, design_system>>

SaveCss == Save("write_css", CssFile)

SaveTailwind == Save("write_tailwind", TailwindFile)

SaveShadcn == Save("write_shadcn", ShadcnFile)

SaveSystem == Save("write_system", SystemFile)

Next ==
    \/ ParseArgs
    \/ LoadAssets
    \/ Recommend
    \/ Generate
    \/ Mkdir
    \/ SaveCss
    \/ SaveTailwind
    \/ SaveShadcn
    \/ SaveSystem

Spec == Init /\ [][Next]_vars

---------------------------------------------------------------------------
(* The two library functions called on their own, with any arguments. *)

InitFn ==
    /\ argv = [product_type |-> None]
    /\ assets_fs \in {d \in AssetDirs : ~d.dir}
    /\ out_fs \in {d \in OutDirs : d.kind = "missing"}
    /\ pc = "recommend"
    /\ args \in {[product_type |-> t] : t \in ProductTypes}
    /\ assets \in UniformAssets
    /\ style = NotYet
    /\ design_system = NotYet
    /\ syscalls = << >>
    /\ exc = "none"

NextFn ==
    \/ Recommend
    \/ Generate

SpecFn == InitFn /\ [][NextFn]_vars

---------------------------------------------------------------------------
(* generate_design_system called on its own, with any style whose fields   *)
(* are keys of the tables, and with the empty style (every field absent,   *)
(* so that each style.get falls back to its default).                      *)

StyleOf(primary, accent, radius, typography, spacing, shadows) ==
    << <<"description", "">>,
       <<"primary_color", primary>>,
       <<"accent_color", accent>>,
       <<"border_radius", radius>>,
       <<"typography", typography>>,
       <<"spacing", spacing>>,
       <<"shadows", shadows>> >>

ValidStyles ==
    {StyleOf(p, a, r, t, s, sh) :
        p \in Keys(COLOR_PALETTES), a \in Keys(COLOR_PALETTES),
        r \in Keys(BORDER_RADIUS), t \in Keys(TYPOGRAPHY),
        s \in Keys(SPACING), sh \in Keys(SHADOWS)}

InitBuild ==
    /\ argv = [product_type |-> None]
    /\ assets_fs \in {d \in AssetDirs : ~d.dir}
    /\ out_fs \in {d \in OutDirs : d.kind = "missing"}
    /\ pc = "generate"
    /\ args = [product_type |-> None]
    /\ assets = EmptyAssets
    /\ style \in ValidStyles \cup {<< >>}
    /\ design_system = NotYet
    /\ syscalls = << >>
    /\ exc = "none"

NextBuild == Generate

SpecBuild == InitBuild /\ [][NextBuild]_vars


---------------------------------------------------------------------------
(* generate_shadcn_theme called on its own (through the shadcn-theme.json  *)
(* block of save_outputs), with the DesignSystem of every product type and *)
(* with its six color tokens in every order.                               *)

\* Every order of n tokens.
TokenOrders(n) == Permutations(1..n)

\* ds with its color tokens reordered by p.
Reordered(ds, p) == [ds EXCEPT !.colors = [i \in DOMAIN p |-> ds.colors[p[i]]]]

InitTheme ==
    /\ argv = [product_type |-> None]
    /\ assets_fs \in {d \in AssetDirs : ~d.dir}
    /\ out_fs \in {d \in OutDirs : d.kind = "dir"}
    /\ pc = "write_shadcn"
    /\ args \in {[product_type |-> t] :
                    t \in {None} \cup {Some(k) : k \in Keys(DESIGN_STYLES)}}
    /\ assets = EmptyAssets
    /\ style = recommend_design_style(args.product_type, assets).val
    /\ \E ds \in {generate_design_system(style, assets).val} :
       \E p \in TokenOrders(Len(ds.colors)) :
          design_system = Reordered(ds, p)
    /\ syscalls = << >>
    /\ exc = "none"

NextTheme == SaveShadcn

SpecTheme == InitTheme /\ [][NextTheme]_vars
---------------------------------------------------------------------------
(* Properties. *)

\* The run has ended: normally, in a usage error, or in a traceback.
Terminal == {"done", "usage_error", "crashed"}

\* C1: recommend_design_style never fails and is a case-insensitive lookup:
\* for every product type (None, empty, any string in any letter case) it
\* returns the preset whose key equals the lower-cased input when there is
\* one, and otherwise the preset registered under "saas" (primary "indigo",
\* accent "purple").
LoweredEquals(s, key) ==
    /\ Len(s) = Len(key)
    /\ \A i \in DOMAIN s :
          \/ s[i] = key[i] /\ ~(\E u \in DOMAIN UpperLetters : UpperLetters[u] = s[i])
          \/ \E u \in DOMAIN UpperLetters :
                UpperLetters[u] = s[i] /\ LowerLetters[u] = key[i]

C1_CaseInsensitiveLookup ==
    /\ pc = "crashed" => style # NotYet
    /\ pc \in {"generate", "mkdir"} =>
          LET pt == args.product_type
              hits == {i \in DOMAIN DESIGN_STYLES :
                          pt.some /\ LoweredEquals(pt.s, DESIGN_STYLES[i][1])}
          IN  /\ exc = "none"
              /\ hits # {} => \E i \in hits : style = DESIGN_STYLES[i][2]
              /\ hits = {} =>
                    /\ style = PRESET_saas
                    /\ Get(style, "primary_color") = "indigo"
                    /\ Get(style, "accent_color") = "purple"

C1_Witness ==
    /\ pc = "generate"
    /\ args.product_type = Some(<<"F", "i", "N", "a", "n", "c", "E">>)
    /\ style = PRESET_finance

\* C2: closure.  For every key of DESIGN_STYLES the resolved preset's style
\* fields (primary_color, accent_color, border_radius, shadows, typography,
\* spacing) are keys of COLOR_PALETTES, COLOR_PALETTES, BORDER_RADIUS, SHADOWS,
\* TYPOGRAPHY and SPACING, so generate_design_system never hits a missing key
\* on a preset the resolver returns.
StyleClosed(s) ==
    /\ Has(s, "primary_color") /\ Get(s, "primary_color") \in Keys(COLOR_PALETTES)
    /\ Has(s, "accent_color") /\ Get(s, "accent_color") \in Keys(COLOR_PALETTES)
    /\ Has(s, "border_radius") /\ Get(s, "border_radius") \in Keys(BORDER_RADIUS)
    /\ Has(s, "shadows") /\ Get(s, "shadows") \in Keys(SHADOWS)
    /\ Has(s, "typography") /\ Get(s, "typography") \in Keys(TYPOGRAPHY)
    /\ Has(s, "spacing") /\ Get(s, "spacing") \in Keys(SPACING)

C2_PresetClosure ==
    /\ \A i \in DOMAIN DESIGN_STYLES : StyleClosed(DESIGN_STYLES[i][2])
    /\ pc \in {"generate", "mkdir"} => StyleClosed(style)
    /\ pc = "mkdir" => exc = "none" /\ design_system # NotYet
    /\ pc # "crashed" /\ exc # "KeyError"

C2_Witness ==
    /\ pc = "mkdir"
    /\ args.product_type = Some(K_education)
    /\ style = PRESET_education
    /\ design_system.shadows = Get(SHADOWS, "playful")
    /\ design_system.fonts[1].family = "Nunito"

\* C3: the built DesignSystem has exactly 6 color tokens, in the order
\* primary, accent, neutral, success, warning, error, and every token's
\* variants has exactly the 11 shade keys "50", "100", ..., "900", "950" with
\* the values of its source palette; no token is partially populated.
ShadeKeys ==
    <<"50", "100", "200", "300", "400", "500", "600", "700", "800", "900", "950">>

\* The palette family each token is fed from, by position.
SourceFamilies(s) ==
    << GetOr(s, "primary_color", "indigo"), GetOr(s, "accent_color", "purple"),
       "slate", "emerald", "yellow", "red" >>

C3_SixTokensElevenShades ==
    pc = "mkdir" =>
        /\ Len(design_system.colors) = 6
        /\ [i \in DOMAIN design_system.colors |-> design_system.colors[i].name]
              = <<N_primary, N_accent, N_neutral, N_success, N_warning, N_error>>
        /\ \A i \in DOMAIN design_system.colors :
              LET v == design_system.colors[i].variants
                  src == Get(COLOR_PALETTES, SourceFamilies(style)[i])
              IN  /\ KeyList(v) = ShadeKeys
                  /\ Len(v) = 11
                  /\ \A k \in DOMAIN ShadeKeys :
                        Get(v, ShadeKeys[k]) = Get(src, ShadeKeys[k])

C3_Witness ==
    /\ pc = "mkdir"
    /\ GetOr(style, "primary_color", "") = "teal"
    /\ Len(design_system.colors) = 6
    /\ Get(design_system.colors[1].variants, "950") = "#042f2e"
    /\ Get(design_system.colors[6].variants, "50") = "#fef2f2"

\* C4: neutral, success, warning and error have a fixed palette family
\* whatever the preset (slate, emerald, yellow, red); primary and accent
\* follow the preset's primary_color and accent_color; each token's
\* representative value is shade "500" of its palette.
TokenNamed(name) ==
    design_system.colors[CHOOSE i \in DOMAIN design_system.colors :
                            design_system.colors[i].name = name]

C4_FixedAndPresetFamilies ==
    pc = "mkdir" =>
        /\ TokenNamed(N_neutral).variants = Get(COLOR_PALETTES, "slate")
        /\ TokenNamed(N_success).variants = Get(COLOR_PALETTES, "emerald")
        /\ TokenNamed(N_warning).variants = Get(COLOR_PALETTES, "yellow")
        /\ TokenNamed(N_error).variants = Get(COLOR_PALETTES, "red")
        /\ Has(style, "primary_color") =>
              TokenNamed(N_primary).variants
                 = Get(COLOR_PALETTES, Get(style, "primary_color"))
        /\ Has(style, "accent_color") =>
              TokenNamed(N_accent).variants
                 = Get(COLOR_PALETTES, Get(style, "accent_color"))
        /\ \A i \in DOMAIN design_system.colors :
              design_system.colors[i].value
                 = Get(design_system.colors[i].variants, "500")
        /\ TokenNamed(N_neutral).value = "#64748b"
        /\ TokenNamed(N_success).value = "#10b981"
        /\ TokenNamed(N_warning).value = "#eab308"
        /\ TokenNamed(N_error).value = "#ef4444"

C4_Witness ==
    /\ pc = "mkdir"
    /\ GetOr(style, "primary_color", "") = "pink"
    /\ GetOr(style, "accent_color", "") = "cyan"
    /\ TokenNamed(N_primary).value = "#ec4899"
    /\ TokenNamed(N_accent).value = "#06b6d4"
    /\ TokenNamed(N_neutral).value = "#64748b"

\* C5: for every spacing style the spacing mapping has exactly the keys 0, px,
\* 0.5, 1, 2, 3, 4, 5, 6, 8, 10, 12, 16, 20, 24; "0" is "0", "px" is "1px",
\* "0.5" is the style's base unit, and every numeric key N is the length
\* scale_factor x N rem.  Product type "finance" (spacing style "spacious",
\* scale factor 1) gives "4" = "4rem" and "0.5" = "1rem".
SpacingKeys ==
    <<"0", "px", "0.5", "1", "2", "3", "4", "5", "6", "8", "10", "12", "16",
      "20", "24">>

\* The numeric keys with their numbers.
NumericKeys ==
    << <<"1", 1>>, <<"2", 2>>, <<"3", 3>>, <<"4", 4>>, <<"5", 5>>, <<"6", 6>>,
       <<"8", 8>>, <<"10", 10>>, <<"12", 12>>, <<"16", 16>>, <<"20", 20>>,
       <<"24", 24>> >>

IsDigit(c) == \E i \in DOMAIN DigitChars : DigitChars[i] = c

DigitVal(c) == (CHOOSE i \in DOMAIN DigitChars : DigitChars[i] = c) - 1

\* The number of digits s starts with.
LeadDigits(s) ==
    CHOOSE n \in 0..Len(s) :
        /\ \A i \in 1..n : IsDigit(s[i])
        /\ n < Len(s) => ~IsDigit(s[n + 1])

RECURSIVE DecimalVal(_)
DecimalVal(s) ==
    IF s = << >> THEN 0
    ELSE 10 * DecimalVal(SubSeq(s, 1, Len(s) - 1)) + DigitVal(s[Len(s)])

\* A CSS length read back from its text: digits, an optional fraction of one
\* or two digits, and the unit.  h is the number in hundredths.
CssLength(s) ==
    LET n == LeadDigits(s)
        whole == DecimalVal(SubSeq(s, 1, n))
        rest == SubSeq(s, n + 1, Len(s))
    IN  IF rest # << >> /\ rest[1] = "."
        THEN LET frac == Tail(rest)
                 m == LeadDigits(frac)
             IN  [wellformed |-> n > 0 /\ m \in {1, 2},
                  h |-> 100 * whole
                        + (IF m = 1 THEN 10 * DigitVal(frac[1])
                           ELSE IF m = 2 THEN DecimalVal(SubSeq(frac, 1, 2))
                           ELSE 0),
                  unit |-> SubSeq(frac, m + 1, Len(frac))]
        ELSE [wellformed |-> n > 0, h |-> 100 * whole, unit |-> rest]

C5_SpacingScale ==
    pc = "mkdir" =>
        LET values == design_system.spacing.values
            config == Get(SPACING, GetOr(style, "spacing", "comfortable"))
            scale == Get(config, "scale")
        IN  /\ KeyList(values) = SpacingKeys
            /\ Get(values, "0") = <<"0">>
            /\ Get(values, "px") = <<"1", "p", "x">>
            /\ Get(values, "0.5") = Get(config, "base")
            /\ design_system.spacing.scale_factor = scale
            /\ \A i \in DOMAIN NumericKeys :
                  CssLength(Get(values, NumericKeys[i][1]))
                     = [wellformed |-> TRUE,
                        h |-> scale.h * NumericKeys[i][2],
                        unit |-> <<"r", "e", "m">>]
            /\ (args.product_type.some
                  /\ str_lower(args.product_type.s) = K_finance) =>
                  /\ Get(style, "spacing") = "spacious"
                  /\ scale.h = 100
                  /\ Get(values, "4") = <<"4", "r", "e", "m">>
                  /\ Get(values, "0.5") = <<"1", "r", "e", "m">>

C5_Witness ==
    /\ pc = "mkdir"
    /\ args.product_type = Some(K_finance)
    /\ Get(design_system.spacing.values, "4") = <<"4", "r", "e", "m">>
    /\ Get(design_system.spacing.values, "0.5") = <<"1", "r", "e", "m">>

\* C6: load_assets never propagates an error and always returns a mapping
\* with exactly the keys colors, fonts, styles.  If the assets directory is
\* missing all three are empty; otherwise each category is decided by its own
\* file alone: absent, unreadable or unparseable leaves it empty, and a
\* failure in one category does not prevent or alter the loading of the others.
Loaded == pc \notin {"parse_args", "usage_error", "load_assets"} /\ assets # NotYet

\* What the category must hold, from the state of its own file alone.
ExpectedCategory(name) ==
    IF assets_fs.dir /\ assets_fs.files[name].kind = "json"
    THEN assets_fs.files[name].doc
    ELSE << >>

C6_LoadAssetsIsolated ==
    /\ pc \notin {"parse_args", "usage_error", "load_assets"} => assets # NotYet
    /\ exc \notin {"PermissionError", "JSONDecodeError"}
    /\ Loaded =>
          /\ KeyList(assets) = <<"colors", "fonts", "styles">>
          /\ \A name \in AssetFileNames : Get(assets, name) = ExpectedCategory(name)

C6_Witness ==
    /\ pc = "recommend"
    /\ assets_fs.dir
    /\ assets_fs.files["colors"].kind = "unreadable"
    /\ assets_fs.files["fonts"].kind = "malformed"
    /\ assets_fs.files["styles"] = [kind |-> "json", doc |-> JsonDoc(1)]
    /\ assets = << <<"colors", << >> >>, <<"fonts", << >> >>,
                   <<"styles", << <<"1", "#000000">> >> >> >>

\* No mkdir and no write of this run failed.
NoOsFailure == \A i \in DOMAIN syscalls : syscalls[i].ok

\* The command line names no product type, or one of the choices.
ArgsAccepted ==
    ~argv.product_type.some
    \/ \E i \in DOMAIN DESIGN_STYLES : DESIGN_STYLES[i][1] = argv.product_type.s

\* The design system of the product type, built without any loaded asset.
DefaultDerived(product_type) ==
    generate_design_system(
        recommend_design_style(product_type, EmptyAssets).val, EmptyAssets).val

\* All four files hold what the renderers give for ds.
AllFourWritten(ds) ==
    /\ out_fs.kind = "dir"
    /\ out_fs.files["design-tokens.css"] = Written(FileContent(CssFile, ds))
    /\ out_fs.files["tailwind.config.json"] = Written(FileContent(TailwindFile, ds))
    /\ out_fs.files["shadcn-theme.json"] = Written(FileContent(ShadcnFile, ds))
    /\ out_fs.files["design-system.json"] = Written(FileContent(SystemFile, ds))

\* C7 as stated: provided directory creation and every write succeed, every
\* run, for every product-type selection and every state of the assets
\* directory, completes with all four files written.
C7_Original ==
    (pc \in Terminal /\ NoOsFailure) =>
        (pc = "done" /\ AllFourWritten(DefaultDerived(argv.product_type)))

\* C7 (amended): the same for every product-type selection the argument
\* parser accepts (none, or exactly a preset key): a run that has ended
\* without a failed mkdir or write has completed and has written all four
\* files, whatever the assets directory holds; a missing assets directory
\* gives the same default-derived content.
C7_CompletesWithFourFiles ==
    (pc \in Terminal /\ NoOsFailure /\ ArgsAccepted) =>
        (pc = "done" /\ exc = "none"
           /\ AllFourWritten(DefaultDerived(argv.product_type)))

C7_Witness ==
    /\ pc = "done"
    /\ ~assets_fs.dir
    /\ argv.product_type = Some(K_healthcare)
    /\ NoOsFailure
    /\ AllFourWritten(DefaultDerived(Some(K_healthcare)))

\* The command line names a product type that is not a key of the table.
UnknownProductType == argv.product_type.some /\ ~ArgsAccepted

\* C8 as stated: a run given a product type that is not a key of the preset
\* table falls back to the "saas" preset and goes on to build the
\* DesignSystem and write the outputs, as a run with no product type does.
C8_Original ==
    (UnknownProductType /\ pc \in Terminal /\ NoOsFailure) =>
        /\ pc = "done"
        /\ style = PRESET_saas
        /\ AllFourWritten(DefaultDerived(None))

\* C8 (amended): a run given a product type that is not exactly (letter case
\* included) a key of the preset table is rejected by the argument parser: it
\* ends in a usage error before any asset is loaded, and resolves, builds and
\* writes nothing.  Only a run with no product type falls back to the "saas"
\* preset and goes on to build the DesignSystem and write the outputs.
C8_UnknownKeyRejected ==
    /\ (UnknownProductType /\ pc # "parse_args") =>
          /\ pc = "usage_error"
          /\ exc = "SystemExit"
          /\ args = NotYet /\ assets = NotYet /\ style = NotYet
          /\ design_system = NotYet
          /\ syscalls = << >>
          /\ \A f \in OutputFiles : out_fs.files[f].state \in {"absent", "stale"}
    /\ pc = "usage_error" => UnknownProductType
    /\ (~argv.product_type.some
          /\ pc \notin {"parse_args", "load_assets", "recommend"}) =>
          /\ style = PRESET_saas
          /\ (pc \in Terminal /\ NoOsFailure) =>
                (pc = "done" /\ AllFourWritten(DefaultDerived(None)))

C8_Witness ==
    /\ pc = "usage_error"
    /\ argv.product_type = Some(<<"S", "A", "A", "S">>)
    /\ exc = "SystemExit"
    /\ syscalls = << >>

WriteOrder ==
    <<"design-tokens.css", "tailwind.config.json", "shadcn-theme.json",
      "design-system.json">>

\* The files save_outputs has opened so far.
Attempted == {syscalls[i].file : i \in {j \in DOMAIN syscalls : syscalls[j].op = "write"}}

C10_OrderedWritesNoRollback ==
    /\ Len(syscalls) <= 1 + Len(WriteOrder)
    /\ \A i \in DOMAIN syscalls :
          /\ i = 1 => syscalls[i].op = "mkdir"
          /\ i > 1 => syscalls[i].op = "write" /\ syscalls[i].file = WriteOrder[i - 1]
          /\ ~syscalls[i].ok => (i = Len(syscalls) /\ pc = "crashed")
          /\ (syscalls[i].op = "write" /\ syscalls[i].ok) =>
                out_fs.files[syscalls[i].file]
                   = Written(FileContent(syscalls[i].file, design_system))
          /\ syscalls[i].op = "mkdir" => (syscalls[i].ok <=> out_fs.kind = "dir")
    /\ \A f \in OutputFiles \ Attempted : out_fs.files[f].state \in {"absent", "stale"}
    /\ (pc = "crashed" /\ syscalls # << >>) => ~syscalls[Len(syscalls)].ok
    /\ pc = "done" => Len(syscalls) = 1 + Len(WriteOrder) /\ NoOsFailure

C10_Witness ==
    /\ pc = "crashed"
    /\ Len(syscalls) = 4
    /\ syscalls[4] = [op |-> "write", file |-> "shadcn-theme.json", ok |-> FALSE]
    /\ out_fs.files["design-tokens.css"].state = "written"
    /\ out_fs.files["tailwind.config.json"].state = "written"
    /\ out_fs.files["shadcn-theme.json"].state = "partial"
    /\ out_fs.files["design-system.json"].state = "stale"

\* C11: for every preset, generate_shadcn_theme takes "destructive" from shade
\* 500 of the 5th declared color token, chosen by position, which is the
\* "warning" token (yellow) and not the "error" token (red); primary, accent
\* and neutral are chosen by name.  So "destructive" is the same value for
\* every preset and never equals the error token's shade 500.
ThemeWritten == out_fs.files["shadcn-theme.json"].state = "written"

\* The colors mapping of the theme in shadcn-theme.json.
ThemeColors == Get(out_fs.files["shadcn-theme.json"].data[2], "colors")

\* The color tokens are in the order generate_design_system declares them.
DeclaredOrder == design_system = generate_design_system(style, assets).val

C11_DestructiveIsFifthToken ==
    ThemeWritten =>
        /\ Get(ThemeColors, "destructive")
              = Get(design_system.colors[5].variants, "500")
        /\ Get(ThemeColors, "primary") = Get(TokenNamed(N_primary).variants, "500")
        /\ Get(ThemeColors, "ring") = Get(TokenNamed(N_primary).variants, "500")
        /\ Get(ThemeColors, "accent") = Get(TokenNamed(N_accent).variants, "500")
        /\ Get(ThemeColors, "background") = Get(TokenNamed(N_neutral).variants, "50")
        /\ Get(ThemeColors, "mutedForeground")
              = Get(TokenNamed(N_neutral).variants, "500")
        /\ DeclaredOrder =>
              /\ design_system.colors[5].name = N_warning
              /\ Get(ThemeColors, "destructive")
                    = Get(Get(COLOR_PALETTES, "yellow"), "500")
              /\ Get(ThemeColors, "destructive") = "#eab308"
              /\ Get(ThemeColors, "destructive") # TokenNamed(N_error).value
              /\ TokenNamed(N_error).value = Get(Get(COLOR_PALETTES, "red"), "500")

C11_Witness ==
    /\ ThemeWritten
    /\ args.product_type = Some(K_social)
    /\ DeclaredOrder
    /\ Get(ThemeColors, "destructive") = "#eab308"
    /\ Get(ThemeColors, "primary") = "#ec4899"


\* C12: for every spacing style in SPACING (compact, comfortable, spacious) the
\* special-cased key "0.5" has the same length as key "1", because base equals
\* scale x 1 rem.  So along the key order 0, 0.5, 1, 2, 3, 4, 5, 6, 8, 10, 12,
\* 16, 20, 24 the lengths never decrease and are not strictly increasing: they
\* rise at every step except 0.5 -> 1, where they coincide; this holds in the
\* DesignSystem generate_design_system has just built, and the --spacing-*
\* properties of the written CSS carry the same texts, 0.5 and 1 alike.
ScaleOrder ==
    <<"0", "0.5", "1", "2", "3", "4", "5", "6", "8", "10", "12", "16", "20",
      "24">>

\* Where the spacing section of a CSS file starts.
SpacingSection(css) == CHOOSE i \in DOMAIN css : css[i] = "  /* SPACING */\n"

\* The text between "  --spacing-<key>: " and the next ";\n" of a CSS file,
\* looked for from position start on.
SpacingProperty(css, start, key) ==
    LET i == CHOOSE i \in start..(Len(css) - 2) :
                 css[i] = "  --spacing-" /\ css[i + 1] = key /\ css[i + 2] = ": "
        j == CHOOSE j \in (i + 3)..Len(css) :
                 css[j] = ";\n" /\ \A k \in (i + 3)..(j - 1) : css[k] # ";\n"
    IN  SubSeq(css, i + 3, j - 1)

\* The texts of the keys of ScaleOrder, in that order: the lengths are equal
\* at 0.5 -> 1 and rise everywhere else.
CoincideOnlyAtHalf(texts) ==
    \E lengths \in {[i \in DOMAIN texts |-> CssLength(texts[i])]} :
        /\ DOMAIN texts = DOMAIN ScaleOrder
        /\ \A i, j \in DOMAIN texts :
              (ScaleOrder[i] = "0.5" /\ ScaleOrder[j] = "1") => texts[i] = texts[j]
        /\ \A i \in DOMAIN texts : lengths[i].wellformed
        /\ \A i \in 2..Len(texts) : lengths[i].unit = REM
        /\ \A i \in 1..(Len(texts) - 1) :
              /\ lengths[i].h <= lengths[i + 1].h
              /\ lengths[i].h = lengths[i + 1].h <=> ScaleOrder[i] = "0.5"

BaseIsScale ==
    \A i \in DOMAIN SPACING :
        LET config == SPACING[i][2]
        IN  /\ Get(config, "base") = FormatNum(Get(config, "scale")) \o REM
            /\ CssLength(Get(config, "base"))
                  = [wellformed |-> TRUE, h |-> Get(config, "scale").h, unit |-> REM]

CssWritten == out_fs.files[CssFile].state = "written"

C12_HalfEqualsOne ==
    /\ KeyList(SPACING) = <<"compact", "comfortable", "spacious">>
    /\ BaseIsScale
    /\ design_system # NotYet =>
          \E values \in {design_system.spacing.values} :
          \E built \in {[i \in DOMAIN ScaleOrder |-> Get(values, ScaleOrder[i])]} :
             /\ Get(values, "0.5")
                   = Get(Get(SPACING, GetOr(style, "spacing", "comfortable")), "base")
             /\ pc = "mkdir" => CoincideOnlyAtHalf(built)
             /\ CssWritten =>
                   \E css \in {out_fs.files[CssFile].data} :
                   \E start \in {SpacingSection(css)} :
                      /\ \A i \in DOMAIN ScaleOrder :
                            SpacingProperty(css, start, ScaleOrder[i]) = built[i]
                      /\ SpacingProperty(css, start, "0.5")
                            = SpacingProperty(css, start, "1")

\* The --spacing-<key> property of the written design-tokens.css.
Emitted(key) ==
    SpacingProperty(out_fs.files[CssFile].data,
                    SpacingSection(out_fs.files[CssFile].data), key)

C12_Witness ==
    /\ pc = "done"
    /\ args.product_type = Some(K_social)
    /\ Get(style, "spacing") = "compact"
    /\ CssWritten
    /\ Get(design_system.spacing.values, "0.5") = <<"0", ".", "2", "5", "r", "e", "m">>
    /\ Emitted("0.5") = <<"0", ".", "2", "5", "r", "e", "m">>
    /\ Emitted("1") = <<"0", ".", "2", "5", "r", "e", "m">>
=============================================================================
